---- MODULE Spec2Model ----
(***************************************************************************)
(* Behaviour-tree nodes of bt_nodes:                                       *)
(*   navigation::NavigateTo  (motion/src/motion/navigation/NavigateTo.cpp) *)
(*   perception::IsInFront   (perception IsInFront.cpp)                    *)
(*                                                                         *)
(* Doubles are modelled as integers (fixed point); strings as strings.     *)
(* Input ports are assumed wired, so every getInput delivers a value.      *)
(***************************************************************************)
EXTENDS Integers, Sequences, FiniteSets, TLC

\* ------------------------------------------------------------------ bounds
\* x / y input ports range over 0..MaxCoord
MaxCoord == 1
\* distance_tolerance input port ranges over 1..MaxTol
MaxTol == 1

VARIABLES
  \* ---- navigation::NavigateTo
  will_finish_,    \* member: finish on terminal outcome
  goal_updated_,   \* member of the action-node base, written by on_success
  goal_,           \* member: NavigateToPose::Goal [pose, behavior_tree]
  status,          \* BT::NodeStatus of the node after the last operation
  tick_status,     \* status the node holds when the last on_tick returned
  outstanding,     \* action client: goals dispatched and without outcome yet
  dispatched,      \* action client: goals handed over by the last operation
  op,              \* the last operation run on the node
  calls,           \* the calls the last operation made, in order
  ctx,             \* what the last on_tick read: ports, lookup, readiness
  repeated         \* the last on_tick read what the on_tick of the operation
                   \* before it had read

nav_vars == <<will_finish_, goal_updated_, goal_, status, tick_status,
              outstanding, dispatched, op, calls, ctx, repeated>>

VARIABLES
  \* ---- perception::IsInFront
  constructed,     \* whether IsInFront::IsInFront has run
  ports,           \* the node's input ports (name -> value)
  activations,     \* node_->add_activation calls, in order
  confidence_,     \* member: threshold handed to the perception query
  entity_,         \* member: label handed to publishTF
  query,           \* the threshold the last tick queried with (<<>>: none)
  found,           \* how many detections the last query returned
  detection,       \* the local `detection` of the last tick
  direction,       \* setOutput("direction", ...) calls of the last tick
  published,       \* publishTF calls of the last tick
  verdict          \* what the last tick returned

front_vars == <<constructed, ports, activations, confidence_, entity_, query,
                found, detection, direction, published, verdict>>

vars == <<nav_vars, front_vars>>

\* ------------------------------------------------------------ message types
\* geometry_msgs/Quaternion: default-constructed is (0, 0, 0, 1)
Quaternion(qx, qy, qz, qw) == [x |-> qx, y |-> qy, z |-> qz, w |-> qw]

IdentityQuaternion == Quaternion(0, 0, 0, 1)

\* geometry_msgs::msg::PoseStamped goal;  (line 42, default-constructed)
DefaultPoseStamped ==
  [frame_id |-> "", position |-> [x |-> 0, y |-> 0],
   orientation |-> IdentityQuaternion]

\* geometry_msgs::msg::TransformStamped map_to_goal;  (line 43)
DefaultTransform ==
  [translation |-> [x |-> 0, y |-> 0], rotation |-> IdentityQuaternion]

\* the empty behavior_tree string of a default-constructed goal
NoXml == <<>>

\* --------------------------------------------------------------- inputs
Coord == 0 .. MaxCoord

Tolerances == 1 .. MaxTol

Frames == {"", "person"}

\* transforms the tf buffer may hold for map -> tf_frame
Transforms ==
  { [translation |-> [x |-> 2, y |-> 3], rotation |-> Quaternion(0, 0, 1, 0)],
    [translation |-> [x |-> 0, y |-> 1], rotation |-> IdentityQuaternion],
    [translation |-> [x |-> 3, y |-> 0], rotation |-> Quaternion(1, 0, 0, 0)] }

\* tf_buffer_.lookupTransform("map", tf_frame, ...): returns or throws
LookupAnswers ==
  {[asked |-> TRUE, throws |-> TRUE, transform |-> DefaultTransform]}
  \cup {[asked |-> TRUE, throws |-> FALSE, transform |-> t] : t \in Transforms}

\* the lookup is not made when tf_frame is empty
NotAsked == [asked |-> FALSE, throws |-> FALSE, transform |-> DefaultTransform]

\* distance_tolerance is read only when is_truncated (0: not read)
TickContexts ==
  { c \in [tf_frame : Frames, will_finish : BOOLEAN, is_truncated : BOOLEAN,
           x : Coord, y : Coord, distance_tolerance : {0} \cup Tolerances,
           lookup : LookupAnswers \cup {NotAsked}, service_ready : BOOLEAN] :
      /\ (c.tf_frame = "") <=> (c.lookup = NotAsked)
      /\ c.is_truncated <=> (c.distance_tolerance # 0) }

NoContext ==
  [tf_frame |-> "", will_finish |-> FALSE, is_truncated |-> FALSE,
   x |-> 0, y |-> 0, distance_tolerance |-> 0,
   lookup |-> NotAsked, service_ready |-> FALSE]

\* generate_xml_file(nav_to_pose_truncated_xml, distance_tolerance): the
\* reference is derived from the template and the tolerance only
generate_xml_file(template, distance_tolerance) ==
  <<template, distance_tolerance>>

\* ----------------------------------------------------- NavigateTo::on_tick
\* FramePose with the position taken from the x / y ports
FramePose_from_ports(in) ==
  LET map_to_goal == IF in.lookup.throws THEN DefaultTransform
                     ELSE in.lookup.transform
  IN  [DefaultPoseStamped EXCEPT
         !.position = [x |-> in.x, y |-> in.y],
         !.orientation = map_to_goal.rotation]

\* lines 51-66: the frame branch; the catch block sets RUNNING and falls
\* through, so map_to_goal is still default-constructed after a throw
FramePose(in) ==
  LET map_to_goal == IF in.lookup.throws THEN DefaultTransform
                     ELSE in.lookup.transform
  IN  [DefaultPoseStamped EXCEPT
         !.position = [x |-> map_to_goal.translation.x,
                       y |-> map_to_goal.translation.y],
         !.orientation = map_to_goal.rotation]

\* CoordinatePose with the orientation left all zero
CoordinatePose_zero_orientation(in) ==
  [DefaultPoseStamped EXCEPT
     !.position = [x |-> in.x, y |-> in.y],
     !.orientation = Quaternion(0, 0, 0, 0)]

\* lines 68-78: the coordinate branch
CoordinatePose(in) ==
  [DefaultPoseStamped EXCEPT
     !.position = [x |-> in.x, y |-> in.y],
     !.orientation = Quaternion(0, 0, 0, 1)]

\* ResolvedPose stamped with the looked-up frame instead of the world frame
ResolvedPose_in_target_frame(in) ==
  LET goal == IF in.tf_frame # "" THEN FramePose(in) ELSE CoordinatePose(in)
  IN  [goal EXCEPT !.frame_id = IF in.tf_frame # "" THEN in.tf_frame
                                 ELSE "map"]

\* lines 42-80: the local goal built by one on_tick
ResolvedPose(in) ==
  LET goal == IF in.tf_frame # "" THEN FramePose(in) ELSE CoordinatePose(in)
  IN  [goal EXCEPT !.frame_id = "map"]

\* ResolvedBehaviorTree generating a new reference on top of the stored one
ResolvedBehaviorTree_appends(in, old) ==
  IF in.is_truncated
    THEN old \o generate_xml_file("nav_to_pose_truncated_xml",
                                  in.distance_tolerance)
    ELSE old

\* lines 92-97: behavior_tree is written only when is_truncated
ResolvedBehaviorTree(in, old) ==
  IF in.is_truncated
    THEN generate_xml_file("nav_to_pose_truncated_xml", in.distance_tolerance)
    ELSE old

\* TickStatus with a failed lookup reported as FAILURE
TickStatus_failure(in, entry) ==
  IF in.tf_frame # "" /\ in.lookup.throws THEN "FAILURE"
  ELSE IF ~in.service_ready THEN "RUNNING"
  ELSE entry

\* lines 58 and 84: setStatus(RUNNING) after a throw or a service not ready
TickStatus(in, entry) ==
  IF (in.tf_frame # "" /\ in.lookup.throws) \/ ~in.service_ready
    THEN "RUNNING" ELSE entry

\* void NavigateTo::on_tick(), entered with node status `entry`
on_tick(in, entry) ==
  /\ will_finish_' = in.will_finish
  /\ goal_' = [pose |-> ResolvedPose(in),
               behavior_tree |-> ResolvedBehaviorTree(in, goal_.behavior_tree)]
  /\ tick_status' = TickStatus(in, entry)
  /\ ctx' = in
  /\ repeated' = (Len(calls) > 0 /\ in = ctx)

\* on_new_goal_received() of the action-node base: the stored goal, `g` at
\* the time of the call, is handed to the action client
on_new_goal_received(g) ==
  dispatched' = <<g>>

\* a handler's early return: nothing is resolved, nothing is dispatched
ReturnOnly(result) ==
  /\ status' = result
  /\ calls' = <<>>
  /\ dispatched' = <<>>
  /\ ctx' = NoContext
  /\ repeated' = FALSE
  /\ UNCHANGED <<will_finish_, goal_, tick_status>>

\* on_success notifying the action client before and after re-resolving
on_success_dispatches_twice ==
  IF will_finish_
    THEN ReturnOnly("SUCCESS") /\ UNCHANGED goal_updated_
    ELSE /\ goal_updated_' = TRUE
         /\ \E in \in TickContexts : on_tick(in, status)
         /\ dispatched' = <<goal_, goal_'>>
         /\ calls' = <<"on_new_goal_received", "on_tick",
                       "on_new_goal_received">>
         /\ status' = "RUNNING"

\* on_success deciding on the will_finish port as it reads when the result
\* arrives, instead of on the member latched by the last on_tick
on_success_reads_port ==
  \E in \in TickContexts :
    IF in.will_finish
      THEN ReturnOnly("SUCCESS") /\ UNCHANGED goal_updated_
      ELSE /\ goal_updated_' = TRUE
           /\ on_tick(in, status)
           /\ on_new_goal_received(goal_')
           /\ calls' = <<"on_tick", "on_new_goal_received">>
           /\ status' = "RUNNING"

\* BT::NodeStatus NavigateTo::on_success()
on_success ==
  IF will_finish_
    THEN ReturnOnly("SUCCESS") /\ UNCHANGED goal_updated_
    ELSE /\ goal_updated_' = TRUE
         /\ \E in \in TickContexts : on_tick(in, status)
         /\ on_new_goal_received(goal_')
         /\ calls' = <<"on_tick", "on_new_goal_received">>
         /\ status' = "RUNNING"

\* on_aborted without the will_finish_ test
on_aborted_always_fails ==
  ReturnOnly("FAILURE") /\ UNCHANGED goal_updated_

\* BT::NodeStatus NavigateTo::on_aborted()
on_aborted ==
  IF will_finish_
    THEN ReturnOnly("FAILURE") /\ UNCHANGED goal_updated_
    ELSE /\ \E in \in TickContexts : on_tick(in, status)
         /\ on_new_goal_received(goal_')
         /\ calls' = <<"on_tick", "on_new_goal_received">>
         /\ status' = "RUNNING"
         /\ UNCHANGED goal_updated_

\* on_cancelled reporting the cancellation as a failure
on_cancelled_as_failure ==
  IF will_finish_
    THEN ReturnOnly("FAILURE") /\ UNCHANGED goal_updated_
    ELSE /\ \E in \in TickContexts : on_tick(in, status)
         /\ on_new_goal_received(goal_')
         /\ calls' = <<"on_tick", "on_new_goal_received">>
         /\ status' = "RUNNING"
         /\ UNCHANGED goal_updated_

\* on_cancelled notifying the action client before it resolves the goal
on_cancelled_notifies_first ==
  IF will_finish_
    THEN ReturnOnly("SUCCESS") /\ UNCHANGED goal_updated_
    ELSE /\ on_new_goal_received(goal_)
         /\ \E in \in TickContexts : on_tick(in, status)
         /\ calls' = <<"on_new_goal_received", "on_tick">>
         /\ status' = "RUNNING"
         /\ UNCHANGED goal_updated_

\* BT::NodeStatus NavigateTo::on_cancelled()
on_cancelled ==
  IF will_finish_
    THEN ReturnOnly("SUCCESS") /\ UNCHANGED goal_updated_
    ELSE /\ \E in \in TickContexts : on_tick(in, status)
         /\ on_new_goal_received(goal_')
         /\ calls' = <<"on_tick", "on_new_goal_received">>
         /\ status' = "RUNNING"
         /\ UNCHANGED goal_updated_

\* ------------------------------------------------- the hosting action node
\* Idle -> Dispatching: the first tick of an activation sets RUNNING, resolves
\* the goal, dispatches it and reports RUNNING.  on_tick returns nothing and
\* leaves the node RUNNING on every path, so the base cannot tell a transient
\* failure from a resolved goal and dispatches after each on_tick
Dispatch ==
  /\ status = "IDLE"
  /\ \E in \in TickContexts : on_tick(in, "RUNNING")
  /\ on_new_goal_received(goal_')
  /\ outstanding' = outstanding + Len(dispatched')
  /\ calls' = <<"on_tick", "on_new_goal_received">>
  /\ status' = "RUNNING"
  /\ op' = "tick"
  /\ UNCHANGED goal_updated_
  /\ UNCHANGED front_vars

\* ticked again before the outstanding goal has an outcome: nothing is sent
Wait ==
  /\ status = "RUNNING"
  /\ outstanding > 0
  /\ op' = "wait"
  /\ calls' = <<>>
  /\ dispatched' = <<>>
  /\ ctx' = NoContext
  /\ repeated' = FALSE
  /\ UNCHANGED <<will_finish_, goal_updated_, goal_, status, tick_status,
                 outstanding>>
  /\ UNCHANGED front_vars

\* the action client delivers Succeeded for the outstanding goal
Succeeded ==
  /\ status = "RUNNING"
  /\ outstanding > 0
  /\ on_success
  /\ outstanding' = outstanding - 1 + Len(dispatched')
  /\ op' = "on_success"
  /\ UNCHANGED front_vars

\* the action client delivers Aborted for the outstanding goal
Aborted ==
  /\ status = "RUNNING"
  /\ outstanding > 0
  /\ on_aborted
  /\ outstanding' = outstanding - 1 + Len(dispatched')
  /\ op' = "on_aborted"
  /\ UNCHANGED front_vars

\* the action client delivers Cancelled for the outstanding goal
Cancelled ==
  /\ status = "RUNNING"
  /\ outstanding > 0
  /\ on_cancelled
  /\ outstanding' = outstanding - 1 + Len(dispatched')
  /\ op' = "on_cancelled"
  /\ UNCHANGED front_vars

\* Done is terminal per activation; a fresh activation starts from Idle
Reset ==
  /\ status \in {"SUCCESS", "FAILURE"}
  /\ status' = "IDLE"
  /\ op' = "reset"
  /\ calls' = <<>>
  /\ dispatched' = <<>>
  /\ ctx' = NoContext
  /\ repeated' = FALSE
  /\ UNCHANGED <<will_finish_, goal_updated_, goal_, tick_status, outstanding>>
  /\ UNCHANGED front_vars

\* ===================================================== perception::IsInFront
\* confidence thresholds range over 0..MaxConf
MaxConf == 1
\* a perception query returns at most MaxDet detections
MaxDet == 2
\* center3d.position.y of a detection ranges over -MaxY..MaxY
MaxY == 1

\* if (std::abs((yaw)) > 5.0)
AlignedDegrees == 5

Confidences == 0 .. MaxConf

\* center3d.position of the detections the perception listener may return
Positions == [x : {-12, 10, 12}, y : -MaxY .. MaxY]

SeqUpTo(S, n) == UNION {[1 .. k -> S] : k \in 0 .. n}

\* what get_by_features may return, best match first
DetectionLists == SeqUpTo(Positions, MaxDet)

NoDetection == [x |-> 0, y |-> 0]

\* the input ports the node declares, with the values the tree may wire
PortValues ==
  [target : {"person"}, confidence : Confidences,
   what : {"person", "object", "chair"}, entity_to_identify : {"person"}]

\* getInput(key, destination): the port's value; a key that is no port of the
\* node leaves the destination as it was
getInput(p, key, destination) ==
  IF key \in DOMAIN p THEN p[key] ELSE destination

\* tan(k degrees) * 10^6, k = 1..89
TanMicro ==
  << 17455, 34921, 52408, 69927, 87489, 105104, 122785, 140541,
     158384, 176327, 194380, 212557, 230868, 249328, 267949, 286745,
     305731, 324920, 344328, 363970, 383864, 404026, 424475, 445229,
     466308, 487733, 509525, 531709, 554309, 577350, 600861, 624869,
     649408, 674509, 700208, 726543, 753554, 781286, 809784, 839100,
     869287, 900404, 932515, 965689, 1000000, 1035530, 1072369, 1110613,
     1150368, 1191754, 1234897, 1279942, 1327045, 1376382, 1428148, 1482561,
     1539865, 1600335, 1664279, 1732051, 1804048, 1880726, 1962611, 2050304,
     2144507, 2246037, 2355852, 2475087, 2605089, 2747477, 2904211, 3077684,
     3270853, 3487414, 3732051, 4010781, 4331476, 4704630, 5144554, 5671282,
     6313752, 7115370, 8144346, 9514364, 11430052, 14300666, 19081137, 28636253,
     57289962 >>

Abs(n) == IF n < 0 THEN -n ELSE n

\* atan(b / a) in degrees for a > 0, b > 0, rounded up to a whole degree
AtanDegUp(b, a) ==
  CHOOSE k \in 1 .. 90 :
    /\ k = 90 \/ b * 1000000 <= a * TanMicro[k]
    /\ k = 1 \/ b * 1000000 > a * TanMicro[k - 1]

\* atan(b / a) in degrees for a > 0, b > 0, rounded down to a whole degree
AtanDegDown(b, a) ==
  CHOOSE k \in 0 .. 89 :
    /\ k = 0 \/ b * 1000000 >= a * TanMicro[k]
    /\ k = 89 \/ b * 1000000 < a * TanMicro[k + 1]

\* yaw = atan2(y, x) * 180.0 / M_PI, in whole degrees with the magnitude
\* rounded up: yaw > 0 and |yaw| > 5 hold of it exactly when they hold of
\* the angle itself
atan2_degrees(y, x) ==
  LET magnitude ==
        IF y = 0 THEN (IF x < 0 THEN 180 ELSE 0)
        ELSE IF x = 0 THEN 90
        ELSE IF x > 0 THEN AtanDegUp(Abs(y), x)
        ELSE 180 - AtanDegDown(Abs(y), -x)
  IN  IF y < 0 THEN -magnitude ELSE magnitude

\* IsInFront activating nothing for a `what` it does not recognise
IsInFront_strict(p, uninitialised) ==
  LET what == getInput(p, "what", "")
  IN  /\ confidence_' = getInput(p, "conficende", uninitialised)
      /\ entity_' = getInput(p, "entity_to_identify", "")
      /\ activations' =
           IF what = "person"
             THEN <<"perception_system/perception_people_detection">>
           ELSE IF what = "object"
             THEN <<"perception_system/perception_object_detection">>
           ELSE <<>>
      /\ ports' = p

\* IsInFront::IsInFront: the members read from the ports and the detector
\* stream activated; `uninitialised` is what confidence_ holds when the
\* constructor body starts (the member has no initialiser in the constructor)
IsInFront(p, uninitialised) ==
  LET what == getInput(p, "what", "")
  IN  /\ confidence_' = getInput(p, "conficende", uninitialised)
      /\ entity_' = getInput(p, "entity_to_identify", "")
      /\ activations' =
           IF what = "person"
             THEN <<"perception_system/perception_people_detection">>
           ELSE IF what = "object"
             THEN <<"perception_system/perception_object_detection">>
           ELSE <<"perception_system/perception_object_detection">>
      /\ ports' = p

\* no_detections turning left
no_detections_turn_left ==
  /\ direction' = <<1>>
  /\ published' = <<>>
  /\ verdict' = "FAILURE"

\* lines 55-59: no detections, turn right by default
no_detections ==
  /\ direction' = <<-1>>
  /\ published' = <<>>
  /\ verdict' = "FAILURE"

\* NotInFront with the comparison not strict
NotInFront_inclusive(yaw) ==
  Abs(yaw) >= AlignedDegrees

\* line 69: the detection is not in front
NotInFront(yaw) ==
  Abs(yaw) > AlignedDegrees

\* not_in_front publishing the frame of the misaligned detection
not_in_front_publishes(yaw) ==
  /\ direction' = IF yaw > 0 THEN <<1>> ELSE <<-1>>
  /\ published' = <<[detection |-> detection', entity |-> entity_]>>
  /\ verdict' = "FAILURE"

\* lines 70-75: the side to turn to
not_in_front(yaw) ==
  /\ direction' = IF yaw > 0 THEN <<1>> ELSE <<-1>>
  /\ published' = <<>>
  /\ verdict' = "FAILURE"

\* in_front without the setOutput
in_front_no_output(d) ==
  /\ published' = <<[detection |-> d, entity |-> entity_]>>
  /\ direction' = <<>>
  /\ verdict' = "SUCCESS"

\* lines 78-82: the detection is in front, publish it
in_front(d) ==
  /\ published' = <<[detection |-> d, entity |-> entity_]>>
  /\ direction' = <<0>>
  /\ verdict' = "SUCCESS"

\* BT::NodeStatus IsInFront::tick(), `detections` being what
\* get_by_features(detection, confidence_) returned
tick(detections) ==
  /\ query' = <<confidence_>>
  /\ found' = Len(detections)
  /\ IF detections = <<>>
       THEN detection' = NoDetection /\ no_detections
       ELSE LET yaw == atan2_degrees(detections[1].y, detections[1].x)
            IN  /\ detection' = detections[1]
                /\ IF NotInFront(yaw)
                     THEN not_in_front(yaw)
                     ELSE in_front(detections[1])

\* the tree builds the node from its ports
Construct ==
  /\ ~constructed
  /\ constructed' = TRUE
  /\ \E p \in PortValues, uninitialised \in Confidences :
       IsInFront(p, uninitialised)
  /\ UNCHANGED <<query, found, detection, direction, published, verdict>>
  /\ UNCHANGED nav_vars

\* the tree ticks the condition node
TickIsInFront ==
  /\ constructed
  /\ \E detections \in DetectionLists : tick(detections)
  /\ UNCHANGED <<constructed, ports, activations, confidence_, entity_>>
  /\ UNCHANGED nav_vars

\* the nodes before their first tick: NavigateTo after its constructor
\* (lines 20-37), which leaves will_finish_ to the first on_tick, and IsInFront
\* before its constructor
Init ==
  /\ will_finish_ = FALSE
  /\ goal_updated_ = FALSE
  /\ goal_ = [pose |-> DefaultPoseStamped, behavior_tree |-> NoXml]
  /\ status = "IDLE"
  /\ tick_status = "IDLE"
  /\ outstanding = 0
  /\ dispatched = <<>>
  /\ op = "none"
  /\ calls = <<>>
  /\ ctx = NoContext
  /\ repeated = FALSE
  /\ constructed = FALSE
  /\ ports = [target |-> "", confidence |-> 0, what |-> "",
              entity_to_identify |-> ""]
  /\ activations = <<>>
  /\ confidence_ = 0
  /\ entity_ = ""
  /\ query = <<>>
  /\ found = 0
  /\ detection = NoDetection
  /\ direction = <<>>
  /\ published = <<>>
  /\ verdict = "IDLE"

Next ==
  \/ Dispatch
  \/ Wait
  \/ Succeeded
  \/ Aborted
  \/ Cancelled
  \/ Reset

Spec == Init /\ [][Next]_vars

NextIsInFront ==
  \/ Construct
  \/ TickIsInFront

SpecIsInFront == Init /\ [][NextIsInFront]_vars

\* ================================================================== claims
Handlers == {"on_success", "on_aborted", "on_cancelled"}

\* the last operation ran on_tick
OnTickRan == Len(calls) > 0

\* C1: with will_finish_ set, on_success returns SUCCESS, on_aborted returns
\* FAILURE and on_cancelled returns SUCCESS; none of them calls on_tick or
\* on_new_goal_received, and goal_ is left as it was.
C1_FinishVerdicts ==
  [][ (will_finish_ /\ op' \in Handlers) =>
        /\ op' = "on_success" => status' = "SUCCESS"
        /\ op' = "on_aborted" => status' = "FAILURE"
        /\ op' = "on_cancelled" => status' = "SUCCESS"
        /\ calls' = <<>>
        /\ dispatched' = <<>>
        /\ goal_' = goal_ ]_vars

C1_Witness ==
  /\ op = "on_cancelled"
  /\ will_finish_
  /\ status = "SUCCESS"
  /\ calls = <<>>
  /\ goal_.pose.position = [x |-> 2, y |-> 3]

\* C2: with will_finish_ clear, every terminal outcome returns RUNNING, runs
\* on_tick and then on_new_goal_received; so while will_finish_ stays clear no
\* step ends in SUCCESS or FAILURE.
C2_ContinueWhenNotFinishing ==
  /\ [][ (~will_finish_ /\ op' \in Handlers) =>
           /\ status' = "RUNNING"
           /\ calls' = <<"on_tick", "on_new_goal_received">>
           /\ Len(dispatched') = 1 ]_vars
  /\ ([](~will_finish_) => [](status \notin {"SUCCESS", "FAILURE"}))

C2_Witness ==
  /\ op = "on_aborted"
  /\ status = "RUNNING"
  /\ ~will_finish_
  /\ calls = <<"on_tick", "on_new_goal_received">>
  /\ dispatched = <<goal_>>

\* C3: a tick with a non-empty tf_frame whose lookup fails leaves goal_.pose
\* as it was before the tick and reports RUNNING (stated of the ticks that
\* follow a resolved goal, whose frame is "map" already).
C3_LookupFailureKeepsGoal ==
  [][ (Len(calls') > 0 /\ ctx'.tf_frame # "" /\ ctx'.lookup.throws
       /\ goal_.pose.frame_id = "map") =>
        /\ goal_'.pose = goal_.pose
        /\ tick_status' = "RUNNING" ]_vars

\* C4: when the service is not ready or the lookup fails, the tick reports
\* RUNNING, does not overwrite goal_, and in a continuation no new goal is
\* handed to the action client (stated of the ticks that follow a resolved
\* goal).
C4_TransientDoesNotAdvance ==
  [][ (Len(calls') > 0
       /\ (~ctx'.service_ready \/ (ctx'.tf_frame # "" /\ ctx'.lookup.throws))
       /\ goal_.pose.frame_id = "map") =>
        /\ tick_status' = "RUNNING"
        /\ goal_' = goal_
        /\ op' \in Handlers => dispatched' = <<>> ]_vars

C6_FailureOnlyWhenFinishing ==
  [][ /\ (status' = "FAILURE" /\ status # "FAILURE") =>
           (op' \in {"on_aborted", "on_cancelled"} /\ will_finish_)
      /\ (Len(calls') > 0
          /\ (~ctx'.service_ready \/ (ctx'.tf_frame # "" /\ ctx'.lookup.throws))) =>
           (tick_status' = "RUNNING" /\ status' = "RUNNING") ]_vars

C6_Witness ==
  /\ op = "on_aborted"
  /\ status = "FAILURE"
  /\ will_finish_

\* C7: a tick whose query returns no detection writes direction -1, returns
\* FAILURE and publishes nothing, whatever the confidence threshold.
C7_NoDetections ==
  (query # <<>> /\ found = 0) =>
    /\ direction = <<-1>>
    /\ verdict = "FAILURE"
    /\ published = <<>>

C7_Witness ==
  /\ query = <<MaxConf>>
  /\ found = 0
  /\ direction = <<-1>>
  /\ verdict = "FAILURE"

\* C8: with detections, the bearing b of the head decides: |b| > 5 returns
\* FAILURE with direction +1 for b > 0 and -1 for b < 0; otherwise SUCCESS with
\* direction 0, a bearing of 5 or -5 degrees included.
C8_BearingDecides ==
  (query # <<>> /\ found > 0) =>
    LET b == atan2_degrees(detection.y, detection.x)
    IN  /\ (b > 5 \/ b < -5) =>
             /\ verdict = "FAILURE"
             /\ b > 0 => direction = <<1>>
             /\ b < 0 => direction = <<-1>>
        /\ (-5 <= b /\ b <= 5) =>
             /\ verdict = "SUCCESS"
             /\ direction = <<0>>

C8_Witness ==
  /\ found = MaxDet
  /\ atan2_degrees(detection.y, detection.x) = 5
  /\ verdict = "SUCCESS"
  /\ direction = <<0>>

\* C9: every tick writes direction exactly once, with -1, 0 or +1; it returns
\* SUCCESS exactly when it wrote 0 and FAILURE exactly when it wrote +1 or
\* -1, and never RUNNING.
C9_VerdictPairedWithCode ==
  query # <<>> =>
    /\ Len(direction) = 1
    /\ direction[1] \in {-1, 0, 1}
    /\ verdict = "SUCCESS" <=> direction[1] = 0
    /\ verdict = "FAILURE" <=> direction[1] \in {-1, 1}
    /\ verdict # "RUNNING"

C9_Witness ==
  /\ query # <<>>
  /\ found > 0
  /\ verdict = "FAILURE"
  /\ direction = <<1>>

\* C10: after a tick with a non-empty tf_frame and a successful lookup, the
\* goal's position and orientation are the transform's translation and
\* rotation, whatever the x and y ports hold.
C10_FrameDeterminesPose ==
  (OnTickRan /\ ctx.tf_frame # "" /\ ~ctx.lookup.throws) =>
    /\ goal_.pose.position.x = ctx.lookup.transform.translation.x
    /\ goal_.pose.position.y = ctx.lookup.transform.translation.y
    /\ goal_.pose.orientation = ctx.lookup.transform.rotation

C10_Witness ==
  /\ OnTickRan
  /\ ctx.tf_frame # ""
  /\ ~ctx.lookup.throws
  /\ ctx.x # ctx.lookup.transform.translation.x
  /\ ctx.y # ctx.lookup.transform.translation.y
  /\ goal_.pose.position = ctx.lookup.transform.translation
  /\ goal_.pose.orientation # IdentityQuaternion

\* C11: after a tick with an empty tf_frame, the goal's position is the x and
\* y ports and its orientation is the identity quaternion (0, 0, 0, 1),
\* whatever the goal was before and whether or not the service is ready.
C11_CoordinatesGiveIdentity ==
  (OnTickRan /\ ctx.tf_frame = "") =>
    /\ goal_.pose.position.x = ctx.x
    /\ goal_.pose.position.y = ctx.y
    /\ goal_.pose.orientation.x = 0
    /\ goal_.pose.orientation.y = 0
    /\ goal_.pose.orientation.z = 0
    /\ goal_.pose.orientation.w = 1

C11_Witness ==
  /\ op \in Handlers
  /\ OnTickRan
  /\ ctx.tf_frame = ""
  /\ ~ctx.service_ready
  /\ goal_.pose.position = [x |-> 1, y |-> 1]
  /\ goal_.pose.orientation = IdentityQuaternion

\* C12: after a tick whose is_truncated port is false, the stored goal carries
\* no truncation policy (behavior_tree is empty), whatever earlier ticks read.
C12_NotTruncatedHasNoPolicy ==
  (OnTickRan /\ ~ctx.is_truncated) => goal_.behavior_tree = NoXml

\* C13: resolving the goal twice in a row from the same context (ports,
\* lookup answer, readiness) stores the same goal, the truncation reference
\* for the same tolerance included.
C13_ResolveIdempotent ==
  [][ ( /\ Len(calls) > 0
         /\ Len(calls') > 0
         /\ [ctx' EXCEPT !.will_finish = ctx.will_finish] = ctx ) =>
        goal_' = goal_ ]_vars

C13_Witness ==
  /\ repeated
  /\ ctx.is_truncated
  /\ ctx.tf_frame # ""
  /\ ~ctx.lookup.throws
  /\ goal_.behavior_tree =
       generate_xml_file("nav_to_pose_truncated_xml", ctx.distance_tolerance)
  /\ goal_.pose.position = ctx.lookup.transform.translation

\* C14: after every completed on_tick (first tick or continuation, frame or
\* coordinate path, lookup failed or service not ready included) the stored
\* goal's frame identifier is "map".
C14_FrameIsMap ==
  OnTickRan => goal_.pose.frame_id = "map"

C14_Witness ==
  /\ op \in Handlers
  /\ OnTickRan
  /\ ctx.tf_frame # ""
  /\ ctx.lookup.throws
  /\ ~ctx.service_ready
  /\ goal_.pose.frame_id = "map"

\* C15: constructing IsInFront activates exactly one detector stream: the
\* people stream for what = "person", the object stream for what = "object"
\* and for every other value, which does not keep the node from being built.
C15_OneStreamActivated ==
  constructed =>
    /\ Len(activations) = 1
    /\ (ports.what = "person") =>
         activations = <<"perception_system/perception_people_detection">>
    /\ (ports.what # "person") =>
         activations = <<"perception_system/perception_object_detection">>

C15_Witness ==
  /\ constructed
  /\ ports.what \notin {"person", "object"}
  /\ activations = <<"perception_system/perception_object_detection">>
  /\ verdict \in {"SUCCESS", "FAILURE"}

\* C16: with the finish flag clear each of on_success, on_aborted and
\* on_cancelled marks goal_updated_, resolves the goal again and notifies the
\* action client, so the flag is set after an aborted or cancelled
\* continuation as it is after a succeeded one.
C16_ContinuationMarksGoalUpdated ==
  [][ (op' \in Handlers /\ ~will_finish_) =>
        /\ goal_updated_'
        /\ calls' = <<"on_tick", "on_new_goal_received">>
        /\ Len(dispatched') = 1 ]_vars

\* C17: a tick publishes the entity's frame (publishTF of the head detection
\* under the configured entity) exactly when its verdict is SUCCESS with
\* direction 0; a FAILURE tick, with no detections or with a bearing of more
\* than 5 degrees, publishes nothing.
C17_PublishIffAligned ==
  (query # <<>>) =>
    /\ (verdict = "SUCCESS" /\ direction = <<0>>) <=> (published # <<>>)
    /\ (verdict = "FAILURE") => (published = <<>>)
    /\ (published # <<>>) =>
         published = <<[detection |-> detection, entity |-> entity_]>>

C17_Witness ==
  /\ query # <<>>
  /\ verdict = "SUCCESS"
  /\ found = 2
  /\ detection = [x |-> 12, y |-> 1]
  /\ published = <<[detection |-> [x |-> 12, y |-> 1], entity |-> "person"]>>

\* C18: the confidence threshold a tick passes to the perception query is
\* the value given on the node's `confidence` port.
C18_QueryUsesConfidencePort ==
  (query # <<>>) => query = <<ports.confidence>>

\* C19: a terminal outcome decides on the will_finish value latched by the
\* on_tick that preceded it, not on what the port reads when the outcome
\* arrives: with the latched flag clear the outcome continues (RUNNING, one
\* goal dispatched) even if the port now reads true, and latches the new
\* value, so that only the outcome after it returns the final verdict.
C19_FinishUsesLatchedFlag ==
  [][ (op' \in Handlers) =>
        /\ ~will_finish_ =>
             /\ status' = "RUNNING"
             /\ Len(dispatched') = 1
             /\ will_finish_' = ctx'.will_finish
        /\ will_finish_ =>
             /\ status' \in {"SUCCESS", "FAILURE"}
             /\ dispatched' = <<>>
             /\ will_finish_' ]_vars

C19_Witness ==
  /\ op \in Handlers
  /\ status = "RUNNING"
  /\ OnTickRan
  /\ ctx.will_finish
  /\ will_finish_
  /\ outstanding > 0

\* C20: in every continuation (terminal outcome with the finish flag clear)
\* the goal is resolved exactly once and before the single new-goal
\* notification, so the goal handed over is the one this continuation
\* resolved, never the goal of an earlier cycle.
C20_ResolveBeforeNotify ==
  [][ (op' \in Handlers /\ ~will_finish_) =>
        /\ calls' = <<"on_tick", "on_new_goal_received">>
        /\ dispatched' = <<goal_'>>
        /\ goal_'.pose = ResolvedPose(ctx')
        /\ goal_'.behavior_tree =
             ResolvedBehaviorTree(ctx', goal_.behavior_tree) ]_vars

C20_Witness ==
  /\ op = "on_cancelled"
  /\ calls = <<"on_tick", "on_new_goal_received">>
  /\ ctx.tf_frame = ""
  /\ ctx.x = 1
  /\ ctx.y = 0
  /\ dispatched = <<goal_>>
  /\ goal_.pose.position = [x |-> 1, y |-> 0]
  /\ goal_updated_

====
